---------------------------- MODULE Spec2Model ----------------------------
(***************************************************************************)
(* The tag evaluator of dummy_data (src/dummy_data/evaluators.py).         *)
(*                                                                         *)
(* evaluate_parsed walks a parsed document (dict / list / str / other) and *)
(* replaces every tag {% function args %} of every string by the result of *)
(* calling the function of that name in the functions module.             *)
(*                                                                         *)
(* Encoding of Python values (one record shape per Python type, so that    *)
(* values of different types are different and never compared field by     *)
(* field):                                                                 *)
(*   str       [str |-> <<segment, ...>>]; a segment is one literal        *)
(*             character [lit |-> c] or one span matched by TAG_PATTERN    *)
(*             [function |-> name, args |-> <<token, ...>>]                *)
(*   int       [num |-> n]            None  [none |-> TRUE]                *)
(*   bool      [bool |-> b]           list  [list |-> <<value, ...>>]      *)
(*   dict      [dict |-> <<[k |-> key, v |-> value], ...>>] in insertion   *)
(*             order, keys pairwise different                              *)
(*   callable  [parent_function |-> name, count |-> n]: the value returned *)
(*             by the functions repeat and random                          *)
(* Offsets inside a string (match.start(), match.end(), len(match.string)) *)
(* are counted in segments; every segment is a non-empty span of the       *)
(* string, so "offset 0" and "offset len" mean the same in both units.     *)
(***************************************************************************)
EXTENDS Integers, Sequences, FiniteSets, TLC

(* ---------------------------- bounds --------------------------------- *)

\* segments of a top-level string
MaxTextLen == 2
\* elements of a top-level list
MaxArrayLen == 3
\* pairs of a top-level dict
MaxPairs == 3
\* largest count given to repeat
MaxRepeat == 3
\* number of different choices the random function is allowed to make
MaxPick == 2

(* ----------------------------- values -------------------------------- *)

Lit(c) == [lit |-> c]
Tag(f, a) == [function |-> f, args |-> a]
Str(segs) == [str |-> segs]
Num(n) == [num |-> n]
None == [none |-> TRUE]
Bool(b) == [bool |-> b]
List(xs) == [list |-> xs]
Dict(ps) == [dict |-> ps]
Callable(f, n) == [parent_function |-> f, count |-> n]

IsStr(x) == "str" \in DOMAIN x
IsList(x) == "list" \in DOMAIN x
IsDict(x) == "dict" \in DOMAIN x
IsNone(x) == "none" \in DOMAIN x
IsTag(seg) == "function" \in DOMAIN seg

\* hasattr(x, '__call__')
HasCall(x) == "parent_function" \in DOMAIN x

\* the characters of a literal string, as segments
Chars(cs) == [i \in 1..Len(cs) |-> Lit(cs[i])]

(* ------------------------- exceptions, outcomes ---------------------- *)

NoException == [type |-> "none", message |-> "", function |-> ""]
DDEvaluatorException(msg, f) ==
    [type |-> "DDEvaluatorException", message |-> msg, function |-> f]
TypeError(msg) == [type |-> "TypeError", message |-> msg, function |-> ""]

NON_EXISTENT == "attempted call to non-existent function"
ILLEGAL_LOCATION == "function called from illegal location"
END_OF_ARRAY == "invalid use of function at end of array"

\* what a raising call leaves in place of a value
NoValue == [novalue |-> TRUE]

\* the outcome of a call: its value or the exception it raised, and the
\* trace of function invocations made so far
Return(v, log) == [value |-> v, raised |-> NoException, log |-> log]
Raise(e, log) == [value |-> NoValue, raised |-> e, log |-> log]
Raised(r) == r.raised # NoException

(* ----------------------------- trace --------------------------------- *)

\* call_function looked up the function f of the functions module to call
\* it with args and iteration
CallEvent(f, args, iteration) ==
    [function |-> f, args |-> args, iteration |-> iteration]
\* item(node, evaluate_parsed) was called on a callable item
InvokeEvent(f, node) == [invoke |-> f, node |-> node]
\* and returned value
ReturnEvent(f, value) == [returned |-> f, value |-> value]

IsCall(e) == "function" \in DOMAIN e
IsInvoke(e) == "invoke" \in DOMAIN e
IsReturn(e) == "returned" \in DOMAIN e

(* ------------------------ ARG_PATTERN, arguments --------------------- *)

\* A token of the raw argument text of a tag: a whitespace-delimited run of
\* characters. kind says which alternative of ARG_PATTERN matches it
\* ("number", "quoted", "bare") or that none does ("other": a run holding a
\* backslash or a quote in the middle); body is its text without the
\* enclosing quotes of a quoted token.
Token(kind, body) == [kind |-> kind, body |-> body]

\* ARG_PATTERN.findall(match.group('args')): the tokens an alternative matches
ARG_PATTERN_findall(args) == SelectSeq(args, LAMBDA t : t.kind # "other")

\* x[1:-1] if x[0] == '"' and x[-1] == '"' else x
StripQuotes(tokens) == [i \in 1..Len(tokens) |-> tokens[i].body]

(* ------------------------- the functions module ---------------------- *)

Numeral == <<"0", "1", "2", "3", "4", "5", "6", "7", "8", "9">>

\* int(s) of a one-digit numeral
int(s) == CHOOSE n \in 0..9 : Numeral[n + 1] = s

\* the names the functions module defines
FunctionNames == {"seq", "name", "nil", "flag", "items", "repeat", "random"}

\* what each function returns
Apply(f, args, iteration) ==
    CASE f = "seq" -> Num(7)
      [] f = "name" -> Str(Chars(<<"n">>))
      [] f = "nil" -> None
      [] f = "flag" -> Bool(TRUE)
      [] f = "items" -> List(<<Num(7)>>)
      [] f = "repeat" -> Callable("repeat", IF args = <<>> THEN 1 ELSE int(args[1]))
      [] f = "random" -> Callable("random", 0)

(* ------------------------------ str() -------------------------------- *)

RECURSIVE Digits(_)
Digits(n) == IF n < 10 THEN <<Numeral[n + 1]>>
             ELSE Digits(n \div 10) \o <<Numeral[(n % 10) + 1]>>

RECURSIVE Repr(_)
RECURSIVE ReprItems(_, _)
\* repr(value), as characters
Repr(v) ==
    CASE IsStr(v) -> <<"'">> \o [i \in 1..Len(v.str) |-> v.str[i].lit] \o <<"'">>
      [] "num" \in DOMAIN v -> Digits(v.num)
      [] IsNone(v) -> <<"N", "o", "n", "e">>
      [] "bool" \in DOMAIN v ->
            IF v.bool THEN <<"T", "r", "u", "e">> ELSE <<"F", "a", "l", "s", "e">>
      [] IsList(v) -> <<"[">> \o ReprItems(v.list, 1) \o <<"]">>
      [] HasCall(v) -> <<"<", "f", "u", "n", "c", "t", "i", "o", "n", ">">>
ReprItems(xs, i) ==
    IF i > Len(xs) THEN <<>>
    ELSE (IF i > 1 THEN <<",", " ">> ELSE <<>>) \o Repr(xs[i]) \o ReprItems(xs, i + 1)

\* str(value): a str is itself, any other value its repr
ToStr(v) == IF IsStr(v) THEN v ELSE Str(Chars(Repr(v)))

(* --------------------------- call_function --------------------------- *)

\* the match object of the tag that is segment i of the string parsed
Match(parsed, i) ==
    [function |-> parsed.str[i].function, args |-> parsed.str[i].args,
     start |-> i - 1, end |-> i, string |-> parsed]

\* match.start() != 0 or match.end() != len(match.string), and the same
\* with 'and' for 'or'
NotWholeString_And(match) ==
    match.start # 0 /\ match.end # Len(match.string.str)
NotWholeString(match) ==
    match.start # 0 \/ match.end # Len(match.string.str)

\* getattr(functions, match.group('function')) raised AttributeError: the
\* handler raises DDEvaluatorException; a handler that passes instead
NonExistent_Swallow(match, log) == Return(Str(<<>>), log)
NonExistent(match, log) ==
    Raise(DDEvaluatorException(NON_EXISTENT, match.function), log)

\* call_function once args is known: the function is looked up and called,
\* then the value is checked and converted
CallWith(match, parsed, allow_callable, iteration, args, log) ==
    IF match.function \notin FunctionNames
    THEN NonExistent(match, log)
    ELSE IF HasCall(parsed) /\ ~allow_callable
    THEN Raise(DDEvaluatorException(ILLEGAL_LOCATION, match.function), log)
    ELSE IF NotWholeString(match)
    THEN Return(ToStr(Apply(match.function, args, iteration)), log)
    ELSE Return(Apply(match.function, args, iteration), log)

\* call_function of evaluate_parsed(parsed, allow_callable, iteration)
call_function(match, parsed, allow_callable, iteration, log) ==
    CallWith(match, parsed, allow_callable, iteration,
             StripQuotes(ARG_PATTERN_findall(match.args)),
             Append(log, CallEvent(match.function,
                                   StripQuotes(ARG_PATTERN_findall(match.args)),
                                   iteration)))

(* ------------------------- re.sub, re.search ------------------------- *)

RECURSIVE Concat(_)
Concat(items) ==
    IF items = <<>> THEN <<>> ELSE Head(items).str \o Concat(Tail(items))

\* ''.join(items) at the end of re.sub: anything that is no str makes join
\* raise TypeError
Join(items, log) ==
    IF \E j \in 1..Len(items) : ~IsStr(items[j])
    THEN Raise(TypeError("expected str instance"), log)
    ELSE Return(Str(Concat(items)), log)

\* re.sub appends what the callback returns unless it is None
AppendItem(items, value) == IF IsNone(value) THEN items ELSE Append(items, value)

RECURSIVE re_sub(_, _, _, _, _, _)

\* re.sub after the callback returned r for the tag that is segment i
SubItem(parsed, allow_callable, iteration, i, items, r) ==
    IF Raised(r) THEN r
    ELSE re_sub(parsed, allow_callable, iteration, i + 1,
                AppendItem(items, r.value), r.log)

\* re.sub(TAG_PATTERN, call_function, parsed) from segment i on: every
\* tag, left to right, is given to call_function; items holds the literal
\* text and the values returned so far
re_sub(parsed, allow_callable, iteration, i, items, log) ==
    IF i > Len(parsed.str)
    THEN Join(items, log)
    ELSE IF IsTag(parsed.str[i])
    THEN SubItem(parsed, allow_callable, iteration, i, items,
                 call_function(Match(parsed, i), parsed, allow_callable,
                               iteration, log))
    ELSE re_sub(parsed, allow_callable, iteration, i + 1,
                Append(items, Str(<<parsed.str[i]>>)), log)

\* TAG_PATTERN.search(parsed): the first tag of the string
TAG_PATTERN_search(parsed) ==
    Match(parsed, CHOOSE i \in 1..Len(parsed.str) :
                      /\ IsTag(parsed.str[i])
                      /\ \A j \in 1..(i - 1) : ~IsTag(parsed.str[j]))

\* except TypeError: return call_function(TAG_PATTERN.search(parsed))
ExceptTypeError(parsed, allow_callable, iteration, r) ==
    IF r.raised.type = "TypeError"
    THEN call_function(TAG_PATTERN_search(parsed), parsed, allow_callable,
                       iteration, r.log)
    ELSE r

\* the str branch of evaluate_parsed
evaluate_str(parsed, allow_callable, iteration, log) ==
    ExceptTypeError(parsed, allow_callable, iteration,
                    re_sub(parsed, allow_callable, iteration, 1, <<>>, log))

(* ------------------------------ state -------------------------------- *)

VARIABLES
    parsed,     \* the document given to evaluate_parsed
    pick,       \* the choice the random function makes in this run
    pc,         \* "call", "array" (in the loop of evaluate_array), "done", "raised"
    index,      \* evaluate_array: the cursor
    evaluated,  \* evaluate_array: the output list built so far
    calls,      \* trace of the function invocations made so far
    result,     \* the value returned by evaluate_parsed
    error       \* the exception raised by evaluate_parsed

vars == <<parsed, pick, pc, index, evaluated, calls, result, error>>

(* ----------------------------- OrderedDict --------------------------- *)

\* lists and dicts have no hash
Hashable(k) == ~IsList(k) /\ ~IsDict(k)

KeyIndex(pairs, k) == CHOOSE i \in 1..Len(pairs) : pairs[i].k = k

\* evaluated.setdefault(k, v): the first value stored under a key stays
SetItem_KeepFirst(pairs, k, v) ==
    IF \E i \in 1..Len(pairs) : pairs[i].k = k
    THEN pairs
    ELSE Append(pairs, [k |-> k, v |-> v])

\* evaluated[k] = v on an OrderedDict: a key already present keeps its
\* place and takes the new value, a new key goes to the end
SetItem(pairs, k, v) ==
    IF \E i \in 1..Len(pairs) : pairs[i].k = k
    THEN [pairs EXCEPT ![KeyIndex(pairs, k)].v = v]
    ELSE Append(pairs, [k |-> k, v |-> v])

(* --------------------------- evaluate_parsed ------------------------- *)

RECURSIVE evaluate_parsed(_, _, _, _)
RECURSIVE evaluate_object(_, _, _, _, _)
RECURSIVE evaluate_array(_, _)
RECURSIVE repeat_item(_, _, _, _, _)

\* evaluated[key] = value once both are evaluated (k, after v)
StorePair(parsed_object, iteration, i, pairs, v, k) ==
    IF Raised(k) THEN k
    ELSE IF ~Hashable(k.value)
    THEN Raise(TypeError("unhashable type"), k.log)
    ELSE evaluate_object(parsed_object, iteration, i + 1,
                         SetItem(pairs, k.value, v.value), k.log)

\* In evaluated[key] = value Python evaluates the right-hand side first:
\* v is the evaluated value, the key is evaluated next
KeyAfterValue(parsed_object, iteration, i, pairs, v) ==
    IF Raised(v) THEN v
    ELSE StorePair(parsed_object, iteration, i, pairs, v,
                   evaluate_parsed(parsed_object.dict[i].k, FALSE, iteration,
                                   v.log))

\* evaluate_object from pair i on; pairs holds the pairs stored so far
evaluate_object(parsed_object, iteration, i, pairs, log) ==
    IF i > Len(parsed_object.dict)
    THEN Return(Dict(pairs), log)
    ELSE KeyAfterValue(parsed_object, iteration, i, pairs,
                       evaluate_parsed(parsed_object.dict[i].v, FALSE,
                                       iteration, log))

RepeatCopy(item, node, k, copies, r) ==
    IF Raised(r) THEN r
    ELSE repeat_item(item, node, k + 1, Append(copies, r.value), r.log)

\* the second call of the callable returned by repeat: item(node,
\* evaluate_parsed) evaluates node once per copy, copy k with iteration k
repeat_item(item, node, k, copies, log) ==
    IF k >= item.count
    THEN Return(List(copies), log)
    ELSE RepeatCopy(item, node, k, copies,
                    evaluate_parsed(node, FALSE, Num(k), log))

RandomPicked(r) ==
    IF Raised(r) THEN r ELSE Return(List(<<r.value>>), r.log)

\* the second call of the callable returned by random: item(array,
\* evaluate_parsed) evaluates one element of array, the one it picks
random_item(item, array, log) ==
    IF array = <<>>
    THEN Return(List(<<>>), log)
    ELSE RandomPicked(evaluate_parsed(array[((pick - 1) % Len(array)) + 1],
                                      FALSE, None, log))

\* the locals of evaluate_array, and how it ended: returned (with value),
\* raised, or neither yet
ArrayState(i, ev, log) ==
    [index |-> i, evaluated |-> ev, log |-> log,
     returned |-> FALSE, value |-> NoValue, raised |-> NoException]

\* iteration=index; the position in the output would be len(evaluated)
ElementIteration_Output(i, ev) == Num(Len(ev))
ElementIteration(i, ev) == Num(i)

\* index + 1 >= len(parsed_array), and the loop without that test
AtEndOfArray_Never(i, parsed_array) == FALSE
AtEndOfArray(i, parsed_array) == i + 1 >= Len(parsed_array.list)

\* index += 1 of the repeat branch, and the branch without it
RepeatAdvance_None(i) == i
RepeatAdvance(i) == i + 1

\* parsed_array[index + 1:]
Slice(xs, from) == SubSeq(xs, from + 1, Len(xs))

IndexError ==
    [type |-> "IndexError", message |-> "list index out of range",
     function |-> ""]

\* evaluated.extend(c); index += 1; index += 1, c being what item returned
ExtendRepeat(s, c) ==
    IF Raised(c)
    THEN [s EXCEPT !.raised = c.raised, !.log = c.log]
    ELSE [s EXCEPT !.evaluated = s.evaluated \o c.value.list,
                   !.index = RepeatAdvance(s.index) + 1,
                   !.log = Append(c.log, ReturnEvent("repeat", c.value))]

\* return c, c being what item returned
ReturnRandom(s, c) ==
    IF Raised(c)
    THEN [s EXCEPT !.raised = c.raised, !.log = c.log]
    ELSE [s EXCEPT !.returned = TRUE, !.value = c.value,
                   !.log = Append(c.log, ReturnEvent("random", c.value))]

\* the body of the while loop of evaluate_array after item was evaluated,
\* r being the outcome of that evaluation
AfterItem(parsed_array, s, r) ==
    IF Raised(r)
    THEN [s EXCEPT !.raised = r.raised, !.log = r.log]
    ELSE IF HasCall(r.value)
    THEN IF AtEndOfArray(s.index, parsed_array)
         THEN [s EXCEPT !.raised = DDEvaluatorException(
                                       END_OF_ARRAY, r.value.parent_function),
                        !.log = r.log]
         ELSE IF "repeat" = r.value.parent_function
         THEN IF s.index + 2 > Len(parsed_array.list)
              THEN \* parsed_array[index + 1] past the end of the list
                   [s EXCEPT !.raised = IndexError, !.log = r.log]
              ELSE ExtendRepeat(s,
                       repeat_item(r.value, parsed_array.list[s.index + 2],
                                   0, <<>>,
                                   Append(r.log,
                                          InvokeEvent("repeat",
                                              parsed_array.list[s.index + 2]))))
         ELSE IF "random" = r.value.parent_function
         THEN ReturnRandom(s,
                  random_item(r.value, Slice(parsed_array.list, s.index + 1),
                              Append(r.log,
                                     InvokeEvent("random",
                                         List(Slice(parsed_array.list,
                                                    s.index + 1))))))
         ELSE [s EXCEPT !.index = s.index + 1, !.log = r.log]
    ELSE [s EXCEPT !.evaluated = Append(s.evaluated, r.value),
                   !.index = s.index + 1, !.log = r.log]

\* one pass through the body of the while loop of evaluate_array
ArrayStep(parsed_array, s) ==
    AfterItem(parsed_array, s,
              evaluate_parsed(parsed_array.list[s.index + 1], TRUE,
                              ElementIteration(s.index, s.evaluated), s.log))

\* evaluate_array: the while loop, from the state s on
evaluate_array(parsed_array, s) ==
    IF s.raised # NoException THEN Raise(s.raised, s.log)
    ELSE IF s.returned THEN Return(s.value, s.log)
    ELSE IF s.index < Len(parsed_array.list)
    THEN evaluate_array(parsed_array, ArrayStep(parsed_array, s))
    ELSE Return(List(s.evaluated), s.log)

\* evaluate_parsed(parsed, allow_callable, iteration)
evaluate_parsed(node, allow_callable, iteration, log) ==
    IF IsDict(node) THEN evaluate_object(node, iteration, 1, <<>>, log)
    ELSE IF IsList(node) THEN evaluate_array(node, ArrayState(0, <<>>, log))
    ELSE IF IsStr(node) THEN evaluate_str(node, allow_callable, iteration, log)
    ELSE Return(node, log)

(* ----------------------------- documents ------------------------------ *)

\* sequences over S of length lo..hi
SeqsOf(S, lo, hi) == UNION {[1..n -> S] : n \in lo..hi}

NoArgs == <<>>
WholeTag(f, a) == Str(<<Tag(f, a)>>)

\* the tags of the documents: every function of the functions module, two
\* names it does not define, and the spellings of an argument
Tags ==
    {Tag(f, NoArgs) : f \in {"seq", "name", "nil", "flag", "items", "random",
                             "nope", "nada"}}
    \cup {Tag("repeat", <<Token("quoted", Numeral[MaxRepeat + 1])>>),
          Tag("seq", <<Token("other", "\\"), Token("bare", "x")>>)}

\* top-level strings
Texts == {Str(segs) : segs \in SeqsOf({Lit("a")} \cup Tags, 0, MaxTextLen)}

RepeatTag(n) == WholeTag("repeat", <<Token("number", Numeral[n + 1])>>)

\* the elements of top-level lists
Elements ==
    {Str(Chars(<<"a">>)),
     WholeTag("seq", NoArgs), WholeTag("nope", NoArgs), WholeTag("random", NoArgs),
     RepeatTag(0), RepeatTag(MaxRepeat),
     Str(<<Lit("a"), Tag("seq", NoArgs)>>),
     Dict(<<[k |-> Str(Chars(<<"k">>)), v |-> WholeTag("seq", NoArgs)]>>),
     List(<<WholeTag("seq", NoArgs), WholeTag("seq", NoArgs)>>)}

\* top-level lists
Arrays == {List(xs) : xs \in SeqsOf(Elements, 0, MaxArrayLen)}

\* the keys and values of top-level dicts
Keys ==
    {Str(Chars(<<"n">>)), WholeTag("name", NoArgs),
     WholeTag("name", <<Token("bare", "x")>>),
     WholeTag("seq", NoArgs), WholeTag("items", NoArgs), WholeTag("nope", NoArgs)}
Values ==
    {WholeTag("seq", NoArgs), WholeTag("nope", NoArgs), RepeatTag(1),
     List(<<WholeTag("seq", NoArgs), Dict(<<[k |-> WholeTag("name", NoArgs),
                                             v |-> WholeTag("seq", NoArgs)]>>)>>)}

\* top-level dicts: the keys of a dict are pairwise different
Objects ==
    {Dict(ps) : ps \in {qs \in SeqsOf([k : Keys, v : Values], 0, MaxPairs) :
                          \A i, j \in 1..Len(qs) : qs[i].k = qs[j].k => i = j}}

\* top-level values that are neither dict, list nor str
Scalars == {Num(1), None, Bool(FALSE)}

Documents == Texts \cup Arrays \cup Objects \cup Scalars

\* whether a tag anywhere in the document names a function among fs
RECURSIVE Names(_, _)
Names(node, fs) ==
    IF IsStr(node)
    THEN \E i \in 1..Len(node.str) :
            IsTag(node.str[i]) /\ node.str[i].function \in fs
    ELSE IF IsList(node)
    THEN \E i \in 1..Len(node.list) : Names(node.list[i], fs)
    ELSE IF IsDict(node)
    THEN \E i \in 1..Len(node.dict) :
            Names(node.dict[i].k, fs) \/ Names(node.dict[i].v, fs)
    ELSE FALSE

(* ------------------------------ actions ------------------------------- *)

Init ==
    /\ parsed \in Documents
    /\ pick \in 1..MaxPick
    /\ (~Names(parsed, {"random"}) => pick = 1)
    /\ pc = "call"
    /\ index = 0
    /\ evaluated = <<>>
    /\ calls = <<>>
    /\ result = NoValue
    /\ error = NoException

\* how a call that ran to its end shows in the state
Finish(r) ==
    /\ calls' = r.log
    /\ IF Raised(r)
       THEN pc' = "raised" /\ error' = r.raised /\ result' = NoValue
       ELSE pc' = "done" /\ error' = NoException /\ result' = r.value

\* isinstance(parsed, dict): return evaluate_object(parsed)
EvaluateObject ==
    /\ pc = "call" /\ IsDict(parsed)
    /\ Finish(evaluate_object(parsed, None, 1, <<>>, calls))
    /\ UNCHANGED <<parsed, pick, index, evaluated>>

\* isinstance(parsed, list): evaluate_array(parsed) is entered
EnterArray ==
    /\ pc = "call" /\ IsList(parsed)
    /\ pc' = "array" /\ index' = 0 /\ evaluated' = <<>>
    /\ UNCHANGED <<parsed, pick, calls, result, error>>

\* how one pass through the loop body, ending in s, shows in the state
ArrayUpdate(s) ==
    /\ index' = s.index
    /\ evaluated' = s.evaluated
    /\ calls' = s.log
    /\ IF s.raised # NoException
       THEN pc' = "raised" /\ error' = s.raised /\ result' = NoValue
       ELSE IF s.returned
       THEN pc' = "done" /\ result' = s.value /\ error' = NoException
       ELSE pc' = "array" /\ UNCHANGED <<result, error>>

\* evaluate_array: the loop condition holds, one pass through its body
ArrayIterate ==
    /\ pc = "array" /\ index < Len(parsed.list)
    /\ ArrayUpdate(ArrayStep(parsed, ArrayState(index, evaluated, calls)))
    /\ UNCHANGED <<parsed, pick>>

\* evaluate_array: the loop condition fails, return evaluated
ArrayReturn ==
    /\ pc = "array" /\ index >= Len(parsed.list)
    /\ pc' = "done" /\ result' = List(evaluated)
    /\ UNCHANGED <<parsed, pick, index, evaluated, calls, error>>

\* isinstance(parsed, str)
EvaluateString ==
    /\ pc = "call" /\ IsStr(parsed)
    /\ Finish(evaluate_str(parsed, FALSE, None, calls))
    /\ UNCHANGED <<parsed, pick, index, evaluated>>

\* return parsed
ReturnParsed ==
    /\ pc = "call" /\ ~IsDict(parsed) /\ ~IsList(parsed) /\ ~IsStr(parsed)
    /\ pc' = "done" /\ result' = parsed
    /\ UNCHANGED <<parsed, pick, index, evaluated, calls, error>>

Next ==
    \/ EvaluateObject
    \/ EnterArray
    \/ ArrayIterate
    \/ ArrayReturn
    \/ EvaluateString
    \/ ReturnParsed

Spec == Init /\ [][Next]_vars

(* ------------------------- reading the trace -------------------------- *)

\* the events added to the trace by the step being taken
NewEvents == SubSeq(calls', Len(calls) + 1, Len(calls'))

\* the tags of a string, as positions
TagPositions(node) == {i \in 1..Len(node.str) : IsTag(node.str[i])}

\* a string that is exactly one tag, naming a function among fs
IsWholeTagOf(node, fs) ==
    /\ IsStr(node) /\ Len(node.str) = 1 /\ IsTag(node.str[1])
    /\ node.str[1].function \in fs

\* the arguments call_function passes for a tag
PassedArgs(tag) == StripQuotes(ARG_PATTERN_findall(tag.args))

(* ------------------------------- C1 ----------------------------------- *)

\* C1: when the loop of evaluate_array ends in the random branch at cursor
\* i (it returns with the cursor still inside the list), the output is the
\* values accumulated for positions 0..i-1 followed by the list the
\* callable returned.
C1_RandomKeepsPrefix ==
    (pc = "done" /\ IsList(parsed) /\ index < Len(parsed.list))
        => /\ IsReturn(calls[Len(calls)])
           /\ result = List(evaluated \o calls[Len(calls)].value.list)

(* ------------------------------- C2 ----------------------------------- *)

\* C2: a callable produced outside a list element (in a top-level string,
\* in a key or a value of a top-level dict whose values hold no callable
\* in a list) makes the evaluation raise 'function called from illegal
\* location' naming the function; the evaluation never completes with it.
C2_IllegalLocationRaised ==
    (pc \in {"done", "raised"} /\ (IsStr(parsed) \/ IsDict(parsed)))
        => \A i \in 1..Len(calls) :
              (IsCall(calls[i]) /\ calls[i].function \in {"repeat", "random"})
                  => /\ pc = "raised"
                     /\ error = DDEvaluatorException(ILLEGAL_LOCATION,
                                                     calls[i].function)

(* ------------------------------- C3 ----------------------------------- *)

\* C3: a string that is exactly one tag of a function that is neither
\* repeat nor random evaluates to the value the function returns, whatever
\* its type (str, int, bool, None, list).
C3_WholeStringVerbatim ==
    (pc = "done"
       /\ IsWholeTagOf(parsed, FunctionNames \ {"repeat", "random"}))
        => result = Apply(parsed.str[1].function,
                          PassedArgs(parsed.str[1]), None)

(* ------------------------------- C10 ---------------------------------- *)

\* C10: evaluating a string calls the function of each of its tags exactly
\* once, whatever the function returns.
C10_CalledOnce ==
    (pc = "done" /\ IsStr(parsed))
        => Len(calls) = Cardinality(TagPositions(parsed))

(* ------------------------------- C4 ----------------------------------- *)

\* the text a string becomes when each tag is replaced by the text form of
\* what its function returns and every other character is kept
RECURSIVE Spliced(_, _)
Spliced(segs, iteration) ==
    IF segs = <<>> THEN <<>>
    ELSE (IF IsTag(Head(segs))
          THEN ToStr(Apply(Head(segs).function, PassedArgs(Head(segs)),
                           iteration)).str
          ELSE <<Head(segs)>>)
         \o Spliced(Tail(segs), iteration)

\* a string with a tag that is not the whole string, all of whose tags name
\* functions of the functions module
IsEmbedded(node) ==
    /\ IsStr(node) /\ Len(node.str) >= 2 /\ TagPositions(node) # {}
    /\ \A i \in TagPositions(node) : node.str[i].function \in FunctionNames

\* C4: a string in which a tag stands beside literal text or other tags
\* evaluates to the string in which every tag, left to right, is replaced
\* by the text form of its own function's result, every other character
\* unchanged and in place.
C4_EmbeddedSpliced ==
    (pc # "call" /\ IsEmbedded(parsed))
        => pc = "done" /\ result = Str(Spliced(parsed.str, None))

C4_Witness ==
    /\ pc = "done"
    /\ parsed = Str(<<Lit("a"), Tag("seq", NoArgs)>>)
    /\ result = Str(Chars(<<"a", "7">>))

(* ------------------------------- C5 ----------------------------------- *)

\* the count a repeat tag asks for
RepeatCount(node) ==
    IF PassedArgs(node.str[1]) = <<>> THEN 1 ELSE int(PassedArgs(node.str[1])[1])

\* how often the step being taken invoked a callable of f on node
Invocations(f, node) ==
    Cardinality({j \in 1..Len(NewEvents) : NewEvents[j] = InvokeEvent(f, node)})

\* C5: a pass through the loop of evaluate_array at cursor i whose element
\* is a repeat tag, with an element at i + 1, invokes the callable exactly
\* once, on the unevaluated element at i + 1; unless that raises, the list
\* it returns (count copies) is appended to the output in order and the
\* cursor moves to i + 2.
C5_RepeatConsumesTwo ==
    [][(pc = "array" /\ index + 1 < Len(parsed.list)
          /\ IsWholeTagOf(parsed.list[index + 1], {"repeat"}))
        => /\ Invocations("repeat", parsed.list[index + 2]) = 1
           /\ \/ pc' = "raised"
              \/ /\ pc' = "array"
                 /\ index' = index + 2
                 /\ IsReturn(calls'[Len(calls')])
                 /\ calls'[Len(calls')].returned = "repeat"
                 /\ evaluated' = evaluated \o calls'[Len(calls')].value.list
                 /\ Len(evaluated') =
                        Len(evaluated) + RepeatCount(parsed.list[index + 1])]_vars

C5_Witness ==
    /\ pc = "array" /\ index = 2
    /\ parsed.list[1] = RepeatTag(MaxRepeat)
    /\ parsed.list[2] = Str(Chars(<<"a">>))
    /\ evaluated = [k \in 1..MaxRepeat |-> Str(Chars(<<"a">>))]

(* ------------------------------- C6 ----------------------------------- *)

UnknownNames == {"nope", "nada"}

\* C6: as soon as call_function meets a tag whose function the functions
\* module does not define, the evaluation has raised 'attempted call to
\* non-existent function' naming that function, nothing was called after
\* it and no value is returned; and no document without repeat and random
\* that holds such a tag in any position (whole string, embedded, key,
\* value, list element, nested) evaluates to a value.
C6_UnknownFunction ==
    /\ \A i \in 1..Len(calls) :
          (IsCall(calls[i]) /\ calls[i].function \notin FunctionNames)
              => /\ pc = "raised"
                 /\ error = DDEvaluatorException(NON_EXISTENT, calls[i].function)
                 /\ i = Len(calls)
                 /\ result = NoValue
    /\ (pc = "done" /\ ~Names(parsed, {"repeat", "random"}))
          => ~Names(parsed, UnknownNames)

C6_Witness ==
    /\ pc = "raised"
    /\ error = DDEvaluatorException(NON_EXISTENT, "nope")
    /\ IsList(parsed) /\ index = 1 /\ evaluated # <<>>
    /\ result = NoValue

(* ------------------------------- C7 ----------------------------------- *)

\* what the key and the value of pair i of the top-level dict evaluate to
KeyOf(i) == evaluate_parsed(parsed.dict[i].k, FALSE, None, <<>>).value
ValueOf(i) == evaluate_parsed(parsed.dict[i].v, FALSE, None, <<>>).value

\* pair i evaluates to the key of an earlier pair
Collides(i) == \E j \in 1..(i - 1) : KeyOf(j) = KeyOf(i)

FirstWith(k) ==
    CHOOSE i \in 1..Len(parsed.dict) : KeyOf(i) = k /\ ~Collides(i)
LastWith(k) ==
    CHOOSE i \in 1..Len(parsed.dict) :
        KeyOf(i) = k /\ \A j \in (i + 1)..Len(parsed.dict) : KeyOf(j) # k

\* C7: the dict evaluate_object returns holds the evaluated keys in the
\* order of their first occurrence, one pair less than the input for every
\* pair whose key collides with an earlier one, and under each key the
\* evaluated value of the last input pair with that key.
C7_MappingLastWins ==
    (pc = "done" /\ IsDict(parsed))
        => /\ Len(result.dict) =
                 Len(parsed.dict)
                   - Cardinality({i \in 1..Len(parsed.dict) : Collides(i)})
           /\ \A i \in 1..Len(parsed.dict) :
                 \E a \in 1..Len(result.dict) : result.dict[a].k = KeyOf(i)
           /\ \A a, b \in 1..Len(result.dict) :
                 a < b => FirstWith(result.dict[a].k) < FirstWith(result.dict[b].k)
           /\ \A a \in 1..Len(result.dict) :
                 result.dict[a].v = ValueOf(LastWith(result.dict[a].k))

C7_Witness ==
    /\ pc = "done" /\ IsDict(parsed) /\ Len(parsed.dict) = 2
    /\ Collides(2) /\ ValueOf(1) # ValueOf(2)
    /\ result = Dict(<<[k |-> KeyOf(1), v |-> ValueOf(2)]>>)

(* ------------------------------- C8 ----------------------------------- *)

\* C8: a pass through the loop of evaluate_array whose element is a repeat
\* or random tag at the last position raises 'invalid use of function at
\* end of array' naming the function, without invoking the callable.
C8_ControllerAtEnd ==
    [][(pc = "array" /\ index + 1 = Len(parsed.list)
          /\ IsWholeTagOf(parsed.list[index + 1], {"repeat", "random"}))
        => /\ pc' = "raised"
           /\ error' = DDEvaluatorException(
                           END_OF_ARRAY, parsed.list[index + 1].str[1].function)
           /\ result' = NoValue
           /\ \A j \in 1..Len(NewEvents) : ~IsInvoke(NewEvents[j])]_vars

C8_Witness ==
    /\ pc = "raised"
    /\ error = DDEvaluatorException(END_OF_ARRAY, "random")
    /\ Len(parsed.list) = 3 /\ index = 2
    /\ IsWholeTagOf(parsed.list[1], {"repeat"})
    /\ \E j \in 1..Len(calls) : IsReturn(calls[j])

(* ------------------------------- C9 ----------------------------------- *)

\* the calls the tags of a string make when called with iteration
TagCalls(node, iteration) ==
    {CallEvent(node.str[i].function, PassedArgs(node.str[i]), iteration) :
        i \in TagPositions(node)}

\* The calls a document is expected to make when evaluated with iteration:
\* the element at position i of a list is evaluated with i, the element
\* after a repeat tag once per copy k with k; the keys and values of a
\* dict with the iteration of the dict (inherit) or with none (~inherit).
RECURSIVE ExpectedCalls(_, _, _)
RECURSIVE ExpectedInList(_, _, _)
ExpectedCalls(node, iteration, inherit) ==
    IF IsStr(node) THEN TagCalls(node, iteration)
    ELSE IF IsDict(node)
    THEN UNION {ExpectedCalls(node.dict[i].k,
                              IF inherit THEN iteration ELSE None, inherit)
                \cup ExpectedCalls(node.dict[i].v,
                                   IF inherit THEN iteration ELSE None, inherit) :
                  i \in 1..Len(node.dict)}
    ELSE IF IsList(node) THEN ExpectedInList(node.list, 0, inherit)
    ELSE {}
ExpectedInList(xs, i, inherit) ==
    IF i >= Len(xs) THEN {}
    ELSE IF IsWholeTagOf(xs[i + 1], {"repeat"})
    THEN TagCalls(xs[i + 1], Num(i))
         \cup UNION {ExpectedCalls(xs[i + 2], Num(k), inherit) :
                       k \in 0..(RepeatCount(xs[i + 1]) - 1)}
         \cup ExpectedInList(xs, i + 2, inherit)
    ELSE ExpectedCalls(xs[i + 1], Num(i), inherit)
         \cup ExpectedInList(xs, i + 1, inherit)

\* the calls made, without their order and number
CallsMade == {calls[j] : j \in {n \in 1..Len(calls) : IsCall(calls[n])}}

\* C9 as claimed: in a completed evaluation of a document without random,
\* the tags of list element i are called with iteration i and the tags of
\* the keys and values of every dict with no iteration.
C9_MappingWithoutIteration ==
    (pc = "done" /\ ~Names(parsed, {"random"}))
        => CallsMade = ExpectedCalls(parsed, None, FALSE)

\* C9 amended: in a completed evaluation of a document without random, the
\* tags of list element i are called with iteration i, the input position,
\* whatever the length of the output so far; the tags of the keys and
\* values of a dict are called with the iteration the dict is evaluated
\* with: none at the top level, i for the dict that is list element i.
C9_IterationInherited ==
    (pc = "done" /\ ~Names(parsed, {"random"}))
        => CallsMade = ExpectedCalls(parsed, None, TRUE)

C9_Witness ==
    /\ pc = "done" /\ IsList(parsed) /\ Len(parsed.list) = 3
    /\ parsed.list[1] = RepeatTag(0)
    /\ IsDict(parsed.list[3])
    /\ Len(result.list) = 1
    /\ CallEvent("seq", <<>>, Num(2)) \in CallsMade

=============================================================================
